---- MODULE Spec2Model ----
(***************************************************************************)
(* A model of TextEditor (src/text_editor.py): one linear text buffer, the *)
(* greedy soft-wrap partition of it under line_limit, and one absolute     *)
(* cursor that is read and written through wrapped (line, col) positions.  *)
(*                                                                         *)
(* Characters are one-character strings; a text is a sequence of them.     *)
(* Python indices are 0-based, TLA+ sequences 1-based: absolute offsets,   *)
(* wrapped line numbers and columns keep their Python (0-based) values and *)
(* only the sequence accesses add 1.                                       *)
(***************************************************************************)
EXTENDS Integers, Sequences, FiniteSets, TLC

VARIABLES
    text,           \* TextEditor._text (name-mangled __text)
    line_limit,     \* TextEditor._line_limit
    abs_cursor,     \* TextEditor._abs_cursor
    display_lines,  \* TextEditor._display_lines: per logical line, its sub-lines
    logic_lines,    \* TextEditor._logic_lines: the flattened sub-lines
    fancy,          \* the editor is a TextEditorFancy
    undo,           \* the last accepted insert while only backspaces followed it
    op,             \* the last public call and its arguments
    err,            \* the exception that call raised, if any
    before          \* the editor's fields when that call was made

vars == <<text, line_limit, abs_cursor, display_lines, logic_lines, fancy, undo,
          op, err, before>>

(***************************************************************************)
(* Bounds of the model.                                                    *)
(***************************************************************************)
MaxLen == 3      \* longest text explored
MaxLimit == 3    \* largest line_limit explored
MaxIns == 2      \* longest argument of insert explored

(***************************************************************************)
(* Characters.                                                             *)
(***************************************************************************)
NL == "\n"
BEL == "BEL"
BS == "BS"
FF == "FF"
CR == "CR"
VT == "VT"

\* UNSUPPORTED_CHARS = ["\a", "\b", "\f", "\r", "\v"], in list order
UNSUPPORTED_CHARS == <<BEL, BS, FF, CR, VT>>

\* the supported characters the model types: a letter and the newline
SupportedChars == {"a", NL}

Min(a, b) == IF a <= b THEN a ELSE b
Max(a, b) == IF a >= b THEN a ELSE b

\* Python slices s[lo:hi] and s[lo:] for 0 <= lo, on TLA+ sequences
Slice(s, lo, hi) == SubSeq(s, lo + 1, Min(hi, Len(s)))
SliceFrom(s, lo) == SubSeq(s, lo + 1, Len(s))

\* c in s
Contains(s, c) == \E i \in 1..Len(s) : s[i] = c

\* all sequences over S of length at most n
SeqsUpTo(S, n) == UNION {[1..k -> S] : k \in 0..n}

(***************************************************************************)
(* Wrapping: _wrap_lines.                                                  *)
(***************************************************************************)
\* str.split("\n")
RECURSIVE split_newline(_)
split_newline(t) ==
    IF ~Contains(t, NL) THEN <<t>>
    ELSE LET i == CHOOSE k \in 1..Len(t) :
                      /\ t[k] = NL
                      /\ \A m \in 1..(k - 1) : t[m] # NL
         IN <<SubSeq(t, 1, i - 1)>> \o split_newline(SubSeq(t, i + 1, Len(t)))

\* the while loop with the remainder sliced one character too far
RECURSIVE sub_lines_of_skip(_, _)
sub_lines_of_skip(raw_line, limit) ==
    IF Len(raw_line) > limit
    THEN <<Slice(raw_line, 0, limit)>>
             \o sub_lines_of_skip(SliceFrom(raw_line, limit + 1), limit)
    ELSE <<raw_line>>

\* the while loop cutting also a remainder of exactly limit characters
RECURSIVE sub_lines_of_eager(_, _)
sub_lines_of_eager(raw_line, limit) ==
    IF Len(raw_line) >= limit
    THEN <<Slice(raw_line, 0, limit)>>
             \o sub_lines_of_eager(SliceFrom(raw_line, limit), limit)
    ELSE <<raw_line>>

\* the while loop of _wrap_lines on one raw line
RECURSIVE sub_lines_of(_, _)
sub_lines_of(raw_line, limit) ==
    IF Len(raw_line) > limit
    THEN <<Slice(raw_line, 0, limit)>> \o sub_lines_of(SliceFrom(raw_line, limit), limit)
    ELSE <<raw_line>>

\* [c for sub_line in lines for c in sub_line]
RECURSIVE flatten(_)
flatten(lines) ==
    IF lines = <<>> THEN <<>>
    ELSE Head(lines) \o flatten(Tail(lines))

\* the body of _wrap_lines as a function of the text and the limit it reads
wrap(t, limit) ==
    [i \in 1..Len(split_newline(t)) |-> sub_lines_of(split_newline(t)[i], limit)]

\* textwrap.wrap(raw_line, width, break_long_words=True, ...) on a line
\* without whitespace or hyphens: the line is one word, cut into pieces of
\* width characters; the empty line gives the empty list
RECURSIVE textwrap_wrap(_, _)
textwrap_wrap(raw_line, width) ==
    IF Len(raw_line) = 0 THEN <<>>
    ELSE IF Len(raw_line) <= width THEN <<raw_line>>
    ELSE <<Slice(raw_line, 0, width)>> \o textwrap_wrap(SliceFrom(raw_line, width), width)

\* the nested list TextEditorFancy._wrap_lines builds: per raw line its
\* textwrap pieces, or one empty piece
fancy_wrap(t, limit) ==
    [i \in 1..Len(split_newline(t)) |->
        IF textwrap_wrap(split_newline(t)[i], limit) = <<>>
        THEN << <<>> >>
        ELSE textwrap_wrap(split_newline(t)[i], limit)]

\* TextEditor._wrap_lines reads the text and the limit the caller has just
\* stored
TextEditor_wrap_lines ==
    /\ display_lines' = wrap(text', line_limit')
    /\ logic_lines' = flatten(display_lines')

\* TextEditorFancy._wrap_lines stores the nested list in _logic_lines and
\* its flattening in _display_lines
TextEditorFancy_wrap_lines ==
    /\ logic_lines' = fancy_wrap(text', line_limit')
    /\ display_lines' = flatten(logic_lines')

\* self._wrap_lines(): the method of the editor's class
wrap_lines ==
    IF fancy THEN TextEditorFancy_wrap_lines ELSE TextEditor_wrap_lines

(***************************************************************************)
(* Conversion between absolute offsets and wrapped (line, col) positions.  *)
(***************************************************************************)
\* sum(len(sub) for sub in sub_lines[:n])
RECURSIVE len_of_first(_, _)
len_of_first(sub_lines, n) ==
    IF n <= 0 \/ sub_lines = <<>> THEN 0
    ELSE Len(Head(sub_lines)) + len_of_first(Tail(sub_lines), n - 1)

\* the for loop of _wrapped_to_absolute_index without the character added
\* for the newline after a fully consumed original line
RECURSIVE wrapped_walk_no_separator(_, _, _)
wrapped_walk_no_separator(i, abs_index, remaining_wrapped) ==
    IF i > Len(display_lines) THEN abs_index
    ELSE LET orig_display_lines == display_lines[i]
             count == Len(orig_display_lines)
         IN IF remaining_wrapped >= count
            THEN wrapped_walk_no_separator(i + 1,
                              abs_index + len_of_first(orig_display_lines, count),
                              remaining_wrapped - count)
            ELSE abs_index + len_of_first(orig_display_lines, remaining_wrapped)

\* the for loop of _wrapped_to_absolute_index from original line i on
RECURSIVE wrapped_walk(_, _, _)
wrapped_walk(i, abs_index, remaining_wrapped) ==
    IF i > Len(display_lines) THEN abs_index
    ELSE LET orig_display_lines == display_lines[i]
             count == Len(orig_display_lines)
         IN IF remaining_wrapped >= count
            THEN wrapped_walk(i + 1,
                              abs_index + len_of_first(orig_display_lines, count) + 1,
                              remaining_wrapped - count)
            ELSE abs_index + len_of_first(orig_display_lines, remaining_wrapped)

\* wrap_width without the unit reserved for the line-break position
wrap_width_no_reserve == line_limit

\* the virtual width into which a column overflow is folded
wrap_width == line_limit + 1

\* _wrapped_to_absolute_index(line, col)
wrapped_to_absolute_index(line, col) ==
    IF text = <<>> THEN 0
    ELSE LET line2 == line + (col \div wrap_width)
             col2 == col % wrap_width
         IN IF line2 = 0 THEN col2
            ELSE Min(wrapped_walk(1, 0, line2) + col2, Len(text))

\* the loops of _absolute_to_wrapped_index without the divmod: the end of
\* a full sub-line is reported on that sub-line
RECURSIVE absolute_walk_no_fold(_, _, _, _)
absolute_walk_no_fold(i, j, abs_index, wrapped_line) ==
    IF i > Len(display_lines)
    THEN <<wrapped_line - 1,
           Len(display_lines[Len(display_lines)][Len(display_lines[Len(display_lines)])])>>
    ELSE IF j > Len(display_lines[i])
    THEN absolute_walk_no_fold(i + 1, 1, abs_index - 1, wrapped_line)
    ELSE LET display_line == display_lines[i][j]
         IN IF abs_index <= Len(display_line)
            THEN <<wrapped_line, abs_index>>
            ELSE absolute_walk_no_fold(i, j + 1, abs_index - Len(display_line),
                                       wrapped_line + 1)

\* the loops of _absolute_to_wrapped_index without the test for the last
\* sub-line: the divmod is applied on every sub-line
RECURSIVE absolute_walk_always_fold(_, _, _, _)
absolute_walk_always_fold(i, j, abs_index, wrapped_line) ==
    IF i > Len(display_lines)
    THEN <<wrapped_line - 1,
           Len(display_lines[Len(display_lines)][Len(display_lines[Len(display_lines)])])>>
    ELSE IF j > Len(display_lines[i])
    THEN absolute_walk_always_fold(i + 1, 1, abs_index - 1, wrapped_line)
    ELSE LET display_line == display_lines[i][j]
         IN IF abs_index <= Len(display_line)
            THEN <<wrapped_line + (abs_index \div line_limit), abs_index % line_limit>>
            ELSE absolute_walk_always_fold(i, j + 1, abs_index - Len(display_line),
                                           wrapped_line + 1)

\* the nested for loops of _absolute_to_wrapped_index, at sub-line j of
\* original line i
RECURSIVE absolute_walk(_, _, _, _)
absolute_walk(i, j, abs_index, wrapped_line) ==
    IF i > Len(display_lines)
    THEN <<wrapped_line - 1,
           Len(display_lines[Len(display_lines)][Len(display_lines[Len(display_lines)])])>>
    ELSE IF j > Len(display_lines[i])
    THEN absolute_walk(i + 1, 1, abs_index - 1, wrapped_line)
    ELSE LET display_line == display_lines[i][j]
         IN IF abs_index <= Len(display_line)
            THEN IF j = Len(display_lines[i])
                 THEN <<wrapped_line, abs_index>>
                 ELSE <<wrapped_line + (abs_index \div line_limit),
                        abs_index % line_limit>>
            ELSE absolute_walk(i, j + 1, abs_index - Len(display_line), wrapped_line + 1)

\* _absolute_to_wrapped_index(abs_index)
absolute_to_wrapped_index(abs_index) ==
    absolute_walk(1, 1, Max(0, Min(abs_index, Len(text))), 0)

\* the loops of _absolute_to_wrapped_index_new with case 1 matching the
\* end of the sub-line as well
RECURSIVE absolute_walk_new_inclusive(_, _, _, _, _)
absolute_walk_new_inclusive(i, j, running_abs, wrapped_index, abs_index) ==
    IF i > Len(display_lines)
    THEN IF wrapped_index = 0 THEN <<0, 0>>
         ELSE <<wrapped_index - 1,
                Len(display_lines[Len(display_lines)][Len(display_lines[Len(display_lines)])])>>
    ELSE IF j > Len(display_lines[i])
    THEN absolute_walk_new_inclusive(i + 1, 1, running_abs, wrapped_index, abs_index)
    ELSE LET sub == display_lines[i][j]
             num_sub == Len(display_lines[i])
             start == running_abs
             end == start + Len(sub)
         IN IF abs_index <= end THEN <<wrapped_index, abs_index - start>>
            ELSE absolute_walk_new_inclusive(i, j + 1,
                                             IF j = num_sub THEN end + 1 ELSE end,
                                             wrapped_index + 1, abs_index)

\* the nested for loops of _absolute_to_wrapped_index_new, at sub-line j of
\* original line i; after the loops the last sub-line of the last original
\* line gives the column
RECURSIVE absolute_walk_new(_, _, _, _, _)
absolute_walk_new(i, j, running_abs, wrapped_index, abs_index) ==
    IF i > Len(display_lines)
    THEN IF wrapped_index = 0 THEN <<0, 0>>
         ELSE <<wrapped_index - 1,
                Len(display_lines[Len(display_lines)][Len(display_lines[Len(display_lines)])])>>
    ELSE IF j > Len(display_lines[i])
    THEN absolute_walk_new(i + 1, 1, running_abs, wrapped_index, abs_index)
    ELSE LET sub == display_lines[i][j]
             num_sub == Len(display_lines[i])
             start == running_abs
             end == start + Len(sub)
         IN IF abs_index < end THEN <<wrapped_index, abs_index - start>>
            ELSE IF abs_index = end /\ j = num_sub THEN <<wrapped_index, Len(sub)>>
            ELSE absolute_walk_new(i, j + 1,
                                   IF j = num_sub THEN end + 1 ELSE end,
                                   wrapped_index + 1, abs_index)

\* _absolute_to_wrapped_index_new(abs_index)
absolute_to_wrapped_index_new(abs_index) ==
    absolute_walk_new(1, 1, 0, 0, Max(0, Min(abs_index, Len(text))))

(***************************************************************************)
(* The cursor property.                                                    *)
(***************************************************************************)
\* cursor getter
cursor == absolute_to_wrapped_index(abs_cursor)

\* the cursor setter folding a column equal to line_limit as an overflow
cursor_setter_fold_at_limit(line0, char0) ==
    LET overflow == char0 >= line_limit
        char1 == IF overflow THEN char0 - line_limit ELSE char0
        line1 == IF overflow THEN line0 + 1 ELSE line0
        line2 == Min(line1, Len(logic_lines))
        line == IF line2 >= Len(logic_lines) THEN Len(logic_lines) - 1 ELSE line2
        char == IF line2 >= Len(logic_lines)
                THEN Len(logic_lines[line + 1])
                ELSE Min(char1, Len(logic_lines[line + 1]))
    IN Min(wrapped_to_absolute_index(line, char), Len(text))

\* the cursor setter keeping the column when the line is past the last one
cursor_setter_keep_char(line0, char0) ==
    LET overflow == char0 > line_limit
        char1 == IF overflow THEN char0 - line_limit ELSE char0
        line1 == IF overflow THEN line0 + 1 ELSE line0
        line2 == Min(line1, Len(logic_lines))
        line == IF line2 >= Len(logic_lines) THEN Len(logic_lines) - 1 ELSE line2
        char == Min(char1, Len(logic_lines[line + 1]))
    IN Min(wrapped_to_absolute_index(line, char), Len(text))

\* the cursor setter folding the column by the wrap width, as often as it
\* fits, instead of taking one step of line_limit
cursor_setter_fold_by_width(line0, char0) ==
    LET overflow == char0 > line_limit
        char1 == IF overflow THEN char0 % (line_limit + 1) ELSE char0
        line1 == IF overflow THEN line0 + (char0 \div (line_limit + 1)) ELSE line0
        line2 == Min(line1, Len(logic_lines))
        line == IF line2 >= Len(logic_lines) THEN Len(logic_lines) - 1 ELSE line2
        char == IF line2 >= Len(logic_lines)
                THEN Len(logic_lines[line + 1])
                ELSE Min(char1, Len(logic_lines[line + 1]))
    IN Min(wrapped_to_absolute_index(line, char), Len(text))

\* the cursor setter clamping an overflowing column on the line it was given
cursor_setter_no_step(line0, char0) ==
    LET line2 == Min(line0, Len(logic_lines))
        line == IF line2 >= Len(logic_lines) THEN Len(logic_lines) - 1 ELSE line2
        char == IF line2 >= Len(logic_lines)
                THEN Len(logic_lines[line + 1])
                ELSE Min(char0, Len(logic_lines[line + 1]))
    IN Min(wrapped_to_absolute_index(line, char), Len(text))

\* cursor setter, after validation: the absolute cursor it stores
cursor_setter(line0, char0) ==
    LET overflow == char0 > line_limit
        char1 == IF overflow THEN char0 - line_limit ELSE char0
        line1 == IF overflow THEN line0 + 1 ELSE line0
        line2 == Min(line1, Len(logic_lines))
        line == IF line2 >= Len(logic_lines) THEN Len(logic_lines) - 1 ELSE line2
        char == IF line2 >= Len(logic_lines)
                THEN Len(logic_lines[line + 1])
                ELSE Min(char1, Len(logic_lines[line + 1]))
    IN Min(wrapped_to_absolute_index(line, char), Len(text))

\* the loops of line_cursor returning the column within the display line
RECURSIVE line_cursor_walk_capped(_, _, _, _, _, _)
line_cursor_walk_capped(i, s, total_lines, total_chars, line, char) ==
    IF i > Len(display_lines) THEN <<>>
    ELSE IF s > Len(display_lines[i])
    THEN line_cursor_walk_capped(i + 1, 1, total_lines, 0, line, char)
    ELSE IF total_lines = line THEN <<i - 1, char>>
    ELSE line_cursor_walk_capped(i, s + 1, total_lines + 1,
                                 total_chars + Len(display_lines[i][s]), line, char)

\* line_cursor: the loops over _display_lines, at sub-line s of original
\* line i; the property returns None when the loops end without a match
NoneValue == <<>>

RECURSIVE line_cursor_walk(_, _, _, _, _, _)
line_cursor_walk(i, s, total_lines, total_chars, line, char) ==
    IF i > Len(display_lines) THEN NoneValue
    ELSE IF s > Len(display_lines[i])
    THEN line_cursor_walk(i + 1, 1, total_lines, 0, line, char)
    ELSE IF total_lines = line THEN <<i - 1, total_chars + char>>
    ELSE line_cursor_walk(i, s + 1, total_lines + 1,
                          total_chars + Len(display_lines[i][s]), line, char)

\* line_cursor getter
line_cursor == line_cursor_walk(1, 1, 0, 0, cursor[1], cursor[2])

(***************************************************************************)
(* Python values handed to the setters: a type name, the number of an int, *)
(* bool or float, the items of a tuple or list.                            *)
(***************************************************************************)
PyInt(n) == [type |-> "int", val |-> n, items |-> <<>>]
PyBool(n) == [type |-> "bool", val |-> n, items |-> <<>>]
PyFloat(n) == [type |-> "float", val |-> n, items |-> <<>>]
PyStr == [type |-> "str", val |-> 0, items |-> <<>>]
PyNone == [type |-> "NoneType", val |-> 0, items |-> <<>>]
PyTuple(items) == [type |-> "tuple", val |-> 0, items |-> items]
PyList(items) == [type |-> "list", val |-> 0, items |-> items]

\* isinstance(v, int): bool is a subclass of int
IsInstanceInt(v) == v.type \in {"int", "bool"}
\* isinstance(v, bool)
IsInstanceBool(v) == v.type = "bool"

\* __validate_cursor without the test that rejects bool items
validate_cursor_bool_as_int(pos) ==
    IF pos.type \notin {"tuple", "list"} THEN "TypeError"
    ELSE IF Len(pos.items) # 2 THEN "ValueError"
    ELSE IF ~(\A i \in 1..Len(pos.items) : IsInstanceInt(pos.items[i]))
    THEN "TypeError"
    ELSE IF pos.items[1].val < 0 THEN "ValueError"
    ELSE IF pos.items[2].val < 0 THEN "ValueError"
    ELSE "none"

\* __validate_cursor(pos): the exception it raises
validate_cursor(pos) ==
    IF pos.type \notin {"tuple", "list"} THEN "TypeError"
    ELSE IF Len(pos.items) # 2 THEN "ValueError"
    ELSE IF \/ ~(\A i \in 1..Len(pos.items) : IsInstanceInt(pos.items[i]))
            \/ \E i \in 1..Len(pos.items) : IsInstanceBool(pos.items[i])
    THEN "TypeError"
    ELSE IF pos.items[1].val < 0 THEN "ValueError"
    ELSE IF pos.items[2].val < 0 THEN "ValueError"
    ELSE "none"

\* __validate_line_limit(line_limit): the exception it raises
validate_line_limit(value) ==
    IF ~IsInstanceInt(value) \/ IsInstanceBool(value) THEN "TypeError"
    ELSE IF value.val <= 0 THEN "ValueError"
    ELSE "none"

NoError == [kind |-> "none", char |-> "none"]
Raised(kind, char) == [kind |-> kind, char |-> char]

\* arguments of a call: s of insert, value of line_limit =, pos of cursor =
\* with line and col its two items when it is a pair of integers (-1 if not)
NoArgs == [s |-> <<>>, line |-> 0, col |-> 0, value |-> PyNone, pos |-> PyNone]

\* the editor's fields
Fields == [text |-> text, abs_cursor |-> abs_cursor, line_limit |-> line_limit,
           display_lines |-> display_lines, logic_lines |-> logic_lines]

\* no insert is being taken back
NoUndo == [left |-> 0 - 1, s |-> <<>>, fields |-> <<>>]

\* the record of the last accepted insert: its string, the fields it
\* started from and the number of its characters that no backspace has
\* answered yet; any call other than a backspace ends the record
track(name, args) ==
    IF /\ name = "insert"
       /\ Len(args.s) > 0
       /\ \A i \in 1..Len(args.s) : ~Contains(UNSUPPORTED_CHARS, args.s[i])
    THEN [left |-> Len(args.s), s |-> args.s, fields |-> Fields]
    ELSE IF name = "backspace" /\ undo.left > 0
    THEN [undo EXCEPT !.left = undo.left - 1]
    ELSE NoUndo

\* a public call is made: record it and the fields it starts from
Call(name, args) ==
    /\ op' = [name |-> name, args |-> args]
    /\ before' = Fields
    /\ undo' = track(name, args)
    /\ UNCHANGED fancy

(***************************************************************************)
(* Inputs.                                                                 *)
(***************************************************************************)
UnsupportedSet == {UNSUPPORTED_CHARS[i] : i \in 1..Len(UNSUPPORTED_CHARS)}

\* arguments of insert that contain an unsupported character: one alone, two
\* in either order, and one before or after a supported character
RejectedInputs ==
    {<<c>> : c \in UnsupportedSet}
        \cup {<<c, d>> : c \in UnsupportedSet, d \in UnsupportedSet \cup SupportedChars}
        \cup {<<d, c>> : c \in UnsupportedSet, d \in SupportedChars}

\* arguments of insert: short supported strings, and the rejected ones
InsertInputs == SeqsUpTo(SupportedChars, MaxIns) \cup RejectedInputs

\* initial texts the constructor accepts
InitialTexts == SeqsUpTo(SupportedChars, MaxLen)

\* (line, col) pairs assigned to cursor: every display line, two lines past
\* the last one, columns up to two wrap widths, and one negative value each
CursorLines == -1..(Len(logic_lines) + 1)
CursorCols == -1..(2 * wrap_width + 1)

\* cursor values that are not a pair of integers
MalformedCursorInputs ==
    {PyStr, PyNone, PyInt(0),
     PyTuple(<<>>), PyTuple(<<PyInt(1)>>), PyList(<<PyInt(0)>>),
     PyTuple(<<PyInt(1), PyInt(2), PyInt(3)>>),
     PyTuple(<<PyInt(1), PyStr>>), PyTuple(<<PyStr, PyInt(0)>>),
     PyTuple(<<PyFloat(1), PyInt(0)>>), PyTuple(<<PyInt(0), PyFloat(2)>>),
     PyTuple(<<PyBool(1), PyInt(0)>>), PyTuple(<<PyInt(0), PyBool(0)>>),
     PyTuple(<<PyInt(-1), PyStr>>)}

\* values assigned to cursor: tuples of two integers, two lists of two
\* integers, and the malformed values
CursorInputs ==
    {PyTuple(<<PyInt(line), PyInt(col)>>) : line \in CursorLines, col \in CursorCols}
        \cup {PyList(<<PyInt(0), PyInt(0)>>), PyList(<<PyInt(1), PyInt(1)>>)}
        \cup MalformedCursorInputs

\* values assigned to line_limit, and given to the constructor
LimitInputs ==
    {PyInt(n) : n \in -1..MaxLimit}
        \cup {PyBool(1), PyFloat(2), PyStr, PyNone}

(***************************************************************************)
(* State after construction: TextEditor(line_limit, text).                 *)
(***************************************************************************)
\* the constructor leaving the cursor where it was before the insert
Init_cursor_at_start ==
    \E value \in LimitInputs :
        /\ validate_line_limit(value) = "none"
        /\ line_limit = value.val
        /\ text \in InitialTexts
        /\ fancy = FALSE
        /\ undo = NoUndo
        /\ display_lines = wrap(text, line_limit)
        /\ logic_lines = flatten(display_lines)
        /\ abs_cursor = 0
        /\ op = [name |-> "__init__", args |-> [NoArgs EXCEPT !.s = text, !.value = value]]
        /\ err = NoError
        /\ before = [text |-> <<>>, abs_cursor |-> 0, line_limit |-> line_limit,
                     display_lines |-> <<<< <<>> >>>>, logic_lines |-> << <<>> >>]

\* the constructor validates line_limit, sets the empty text and cursor 0,
\* then inserts the text it was given
Init ==
    \E value \in LimitInputs :
        /\ validate_line_limit(value) = "none"
        /\ line_limit = value.val
        /\ text \in InitialTexts
        /\ fancy = FALSE
        /\ undo = NoUndo
        /\ display_lines = wrap(text, line_limit)
        /\ logic_lines = flatten(display_lines)
        /\ abs_cursor = 0 + Len(text)
        /\ op = [name |-> "__init__", args |-> [NoArgs EXCEPT !.s = text, !.value = value]]
        /\ err = NoError
        /\ before = [text |-> <<>>, abs_cursor |-> 0, line_limit |-> line_limit,
                     display_lines |-> <<<< <<>> >>>>, logic_lines |-> << <<>> >>]

(***************************************************************************)
(* Text manipulation.                                                      *)
(***************************************************************************)
\* the character named being the first unsupported one met in s itself
unsupported_in_scan_of_s(s) ==
    LET i == CHOOSE k \in 1..Len(s) :
                 /\ \E u \in 1..Len(UNSUPPORTED_CHARS) : s[k] = UNSUPPORTED_CHARS[u]
                 /\ \A m \in 1..(k - 1) :
                        \A u \in 1..Len(UNSUPPORTED_CHARS) : s[m] # UNSUPPORTED_CHARS[u]
    IN s[i]

\* the character insert names when it rejects s: the first entry of
\* UNSUPPORTED_CHARS that occurs in s
unsupported_in(s) ==
    LET i == CHOOSE k \in 1..Len(UNSUPPORTED_CHARS) :
                 /\ Contains(s, UNSUPPORTED_CHARS[k])
                 /\ \A m \in 1..(k - 1) : ~Contains(s, UNSUPPORTED_CHARS[m])
    IN UNSUPPORTED_CHARS[i]

\* the check looking only at the first character of the argument
has_unsupported_first_only(s) ==
    Len(s) > 0 /\ \E k \in 1..Len(UNSUPPORTED_CHARS) : s[1] = UNSUPPORTED_CHARS[k]

\* any(c in text for c in UNSUPPORTED_CHARS)
has_unsupported(s) == \E k \in 1..Len(UNSUPPORTED_CHARS) : Contains(s, UNSUPPORTED_CHARS[k])

\* _insert advancing the cursor by one instead of len(text)
insert_text_advance_one(s) ==
    /\ text' = Slice(text, 0, abs_cursor) \o s \o SliceFrom(text, abs_cursor)
    /\ UNCHANGED line_limit
    /\ wrap_lines
    /\ abs_cursor' = abs_cursor + 1

\* _insert leaving the cursor where it was
insert_text_keep_cursor(s) ==
    /\ text' = Slice(text, 0, abs_cursor) \o s \o SliceFrom(text, abs_cursor)
    /\ UNCHANGED line_limit
    /\ wrap_lines
    /\ abs_cursor' = abs_cursor

\* _insert(s): splice at the cursor, re-wrap, advance the cursor
insert_text(s) ==
    /\ text' = Slice(text, 0, abs_cursor) \o s \o SliceFrom(text, abs_cursor)
    /\ UNCHANGED line_limit
    /\ wrap_lines
    /\ abs_cursor' = abs_cursor + Len(s)

Unchanged == UNCHANGED <<text, line_limit, abs_cursor, display_lines, logic_lines>>

\* insert without the scan for unsupported characters
insert_unchecked(s) ==
    /\ Len(text) + Len(s) <= MaxLen
    /\ Call("insert", [NoArgs EXCEPT !.s = s])
    /\ IF Len(s) = 0
       THEN Unchanged /\ err' = NoError
       ELSE insert_text(s) /\ err' = NoError

\* insert(s)
insert(s) ==
    /\ Len(text) + Len(s) <= MaxLen \/ has_unsupported(s)
    /\ Call("insert", [NoArgs EXCEPT !.s = s])
    /\ IF Len(s) = 0
       THEN Unchanged /\ err' = NoError
       ELSE IF has_unsupported(s)
       THEN Unchanged /\ err' = Raised("UnsupportedCharacterError", unsupported_in(s))
       ELSE insert_text(s) /\ err' = NoError

\* delete removing the character behind the cursor
delete_behind ==
    /\ Call("delete", NoArgs)
    /\ err' = NoError
    /\ IF abs_cursor = Len(text)
       THEN Unchanged
       ELSE /\ text' = Slice(text, 0, abs_cursor - 1) \o SliceFrom(text, abs_cursor)
            /\ UNCHANGED <<line_limit, abs_cursor>>
            /\ wrap_lines

\* delete()
delete ==
    /\ Call("delete", NoArgs)
    /\ err' = NoError
    /\ IF abs_cursor = Len(text)
       THEN Unchanged
       ELSE /\ text' = Slice(text, 0, abs_cursor) \o SliceFrom(text, abs_cursor + 1)
            /\ UNCHANGED <<line_limit, abs_cursor>>
            /\ wrap_lines

\* backspace deleting at the cursor without the move_left before it
backspace_no_move ==
    /\ Call("backspace", NoArgs)
    /\ err' = NoError
    /\ IF abs_cursor = 0 \/ abs_cursor = Len(text)
       THEN Unchanged
       ELSE /\ text' = Slice(text, 0, abs_cursor) \o SliceFrom(text, abs_cursor + 1)
            /\ UNCHANGED <<line_limit, abs_cursor>>
            /\ wrap_lines

\* backspace(): move_left() then delete()
backspace ==
    /\ Call("backspace", NoArgs)
    /\ err' = NoError
    /\ IF abs_cursor = 0
       THEN Unchanged
       ELSE LET moved == Max(abs_cursor - 1, 0)
            IN /\ abs_cursor' = moved
               /\ UNCHANGED line_limit
               /\ IF moved = Len(text)
                  THEN UNCHANGED <<text, display_lines, logic_lines>>
                  ELSE /\ text' = Slice(text, 0, moved) \o SliceFrom(text, moved + 1)
                       /\ wrap_lines

\* the text deleter without the reset of the cursor
text_deleter_keep_cursor ==
    /\ Call("del text", NoArgs)
    /\ err' = NoError
    /\ text' = <<>>
    /\ UNCHANGED <<line_limit, abs_cursor>>
    /\ wrap_lines

\* del editor.text
text_deleter ==
    /\ Call("del text", NoArgs)
    /\ err' = NoError
    /\ text' = <<>>
    /\ UNCHANGED line_limit
    /\ wrap_lines
    /\ abs_cursor' = 0

(***************************************************************************)
(* Line limit.                                                             *)
(***************************************************************************)
\* the line_limit setter without its call of _wrap_lines
line_limit_setter_no_wrap(value) ==
    /\ Call("line_limit =", [NoArgs EXCEPT !.value = value])
    /\ IF validate_line_limit(value) # "none"
       THEN Unchanged /\ err' = Raised(validate_line_limit(value), "none")
       ELSE /\ err' = NoError
            /\ line_limit' = value.val
            /\ UNCHANGED <<text, abs_cursor, display_lines, logic_lines>>

\* the line_limit setter moving the cursor to 0 when it re-wraps
line_limit_setter_reset_cursor(value) ==
    /\ Call("line_limit =", [NoArgs EXCEPT !.value = value])
    /\ IF validate_line_limit(value) # "none"
       THEN Unchanged /\ err' = Raised(validate_line_limit(value), "none")
       ELSE /\ err' = NoError
            /\ IF value.val = line_limit
               THEN Unchanged
               ELSE /\ line_limit' = value.val
                    /\ UNCHANGED text
                    /\ abs_cursor' = 0
                    /\ wrap_lines

\* the line_limit setter storing the value before it validates it
line_limit_setter_assign_first(value) ==
    /\ Call("line_limit =", [NoArgs EXCEPT !.value = value])
    /\ IF validate_line_limit(value) # "none"
       THEN /\ line_limit' = value.val
            /\ UNCHANGED <<text, abs_cursor, display_lines, logic_lines>>
            /\ err' = Raised(validate_line_limit(value), "none")
       ELSE /\ err' = NoError
            /\ IF value.val = line_limit
               THEN Unchanged
               ELSE /\ line_limit' = value.val
                    /\ UNCHANGED <<text, abs_cursor>>
                    /\ wrap_lines

\* editor.line_limit = value
line_limit_setter(value) ==
    /\ Call("line_limit =", [NoArgs EXCEPT !.value = value])
    /\ IF validate_line_limit(value) # "none"
       THEN Unchanged /\ err' = Raised(validate_line_limit(value), "none")
       ELSE /\ err' = NoError
            /\ IF value.val = line_limit
               THEN Unchanged
               ELSE /\ line_limit' = value.val
                    /\ UNCHANGED <<text, abs_cursor>>
                    /\ wrap_lines

(***************************************************************************)
(* Cursor assignment and movement.                                         *)
(***************************************************************************)
OnlyCursor == UNCHANGED <<text, line_limit, display_lines, logic_lines>>

\* the item of pos at index i when pos is a sequence of two integers
pos_item(pos, i) ==
    IF /\ pos.type \in {"tuple", "list"}
       /\ Len(pos.items) = 2
       /\ \A k \in 1..2 : pos.items[k].type = "int"
    THEN pos.items[i].val
    ELSE -1

\* editor.cursor = pos
set_cursor(pos) ==
    /\ Call("cursor =", [NoArgs EXCEPT !.pos = pos, !.line = pos_item(pos, 1),
                                       !.col = pos_item(pos, 2)])
    /\ IF validate_cursor(pos) # "none"
       THEN Unchanged /\ err' = Raised(validate_cursor(pos), "none")
       ELSE /\ err' = NoError
            /\ abs_cursor' = cursor_setter(pos.items[1].val, pos.items[2].val)
            /\ OnlyCursor

\* move_left without the clamp to 0
move_left_unclamped ==
    /\ Call("move_left", NoArgs)
    /\ err' = NoError
    /\ abs_cursor' = abs_cursor - 1
    /\ OnlyCursor

move_left ==
    /\ Call("move_left", NoArgs)
    /\ err' = NoError
    /\ abs_cursor' = Max(abs_cursor - 1, 0)
    /\ OnlyCursor

\* move_right without the clamp to len(text)
move_right_unclamped ==
    /\ Call("move_right", NoArgs)
    /\ err' = NoError
    /\ abs_cursor' = abs_cursor + 1
    /\ OnlyCursor

move_right ==
    /\ Call("move_right", NoArgs)
    /\ err' = NoError
    /\ abs_cursor' = Min(abs_cursor + 1, Len(text))
    /\ OnlyCursor

\* move_up without the step back from the end of a full display line
move_up_target_naive ==
    LET line0 == cursor[1] - 1
    IN IF line0 < 0 \/ cursor[2] < 0 THEN <<0, 0>> ELSE <<line0, cursor[2]>>

\* move_up going to the start of the display line above
move_up_target_line_start ==
    LET line0 == cursor[1] - 1
        at_limit == cursor[2] = line_limit
        line1 == IF at_limit THEN line0 + 1 ELSE line0
    IN IF line1 < 0 THEN <<0, 0>> ELSE <<line1, 0>>

\* move_up keeping its column on the first display line
move_up_target_keep_column ==
    LET line0 == cursor[1] - 1
        at_limit == cursor[2] = line_limit
        char1 == IF at_limit THEN 0 ELSE cursor[2]
        line1 == IF at_limit THEN line0 + 1 ELSE line0
    IN IF line1 < 0 \/ char1 < 0 THEN <<0, char1>> ELSE <<line1, char1>>

\* the (line, char) move_up hands to the cursor setter
move_up_target ==
    LET line0 == cursor[1] - 1
        at_limit == cursor[2] = line_limit
        char1 == IF at_limit THEN 0 ELSE cursor[2]
        line1 == IF at_limit THEN line0 + 1 ELSE line0
    IN IF line1 < 0 \/ char1 < 0 THEN <<0, 0>> ELSE <<line1, char1>>

move_up ==
    /\ Call("move_up", NoArgs)
    /\ err' = NoError
    /\ \E target \in {move_up_target} : abs_cursor' = cursor_setter(target[1], target[2])
    /\ OnlyCursor

\* move_down keeping a column equal to line_limit
move_down_target_keep_limit ==
    <<cursor[1] + 1, cursor[2]>>

\* move_down capping its target at the last display line
move_down_target_capped ==
    <<Min(cursor[1] + 1, Len(logic_lines) - 1),
      IF cursor[2] = line_limit THEN 0 ELSE cursor[2]>>

\* the (line, char) move_down hands to the cursor setter
move_down_target ==
    <<cursor[1] + 1, IF cursor[2] = line_limit THEN 0 ELSE cursor[2]>>

move_down ==
    /\ Call("move_down", NoArgs)
    /\ err' = NoError
    /\ \E target \in {move_down_target} : abs_cursor' = cursor_setter(target[1], target[2])
    /\ OnlyCursor

\* move_home written as a reset of the text
move_home_clearing ==
    /\ Call("move_home", NoArgs)
    /\ err' = NoError
    /\ text' = <<>>
    /\ UNCHANGED line_limit
    /\ wrap_lines
    /\ abs_cursor' = 0

move_home ==
    /\ Call("move_home", NoArgs)
    /\ err' = NoError
    /\ abs_cursor' = cursor_setter(0, 0)
    /\ OnlyCursor

\* move_end addressing column 0 of the last display line
move_end_line_start ==
    /\ Call("move_end", NoArgs)
    /\ err' = NoError
    /\ abs_cursor' = cursor_setter(Len(logic_lines) - 1, 0)
    /\ OnlyCursor

move_end ==
    /\ Call("move_end", NoArgs)
    /\ err' = NoError
    /\ abs_cursor' = cursor_setter(Len(logic_lines) - 1, Len(logic_lines[Len(logic_lines)]))
    /\ OnlyCursor

Next ==
    \/ \E s \in InsertInputs : insert(s)
    \/ delete
    \/ backspace
    \/ text_deleter
    \/ \E value \in LimitInputs : line_limit_setter(value)
    \/ \E pos \in CursorInputs : set_cursor(pos)
    \/ move_left
    \/ move_right
    \/ move_up
    \/ move_down
    \/ move_home
    \/ move_end

Spec == Init /\ [][Next]_vars

(***************************************************************************)
(* The curses shell (src/main.py): _run_editor reads one key per turn of   *)
(* its loop and _keystroke dispatches it to the editor.                    *)
(***************************************************************************)
\* key codes: ESC, and the curses codes of the keys of _movement_factory
ESC == 27
KEY_DOWN == 258
KEY_UP == 259
KEY_LEFT == 260
KEY_RIGHT == 261
KEY_HOME == 262
KEY_BACKSPACE == 263
KEY_DC == 330
KEY_END == 360

\* getch() in nodelay mode returns -1 when no key is waiting
NoKey == 0 - 1

\* the keys of the dictionary _movement_factory builds
MovementKeys ==
    {KEY_LEFT, KEY_RIGHT, KEY_UP, KEY_DOWN, KEY_HOME, KEY_END, KEY_BACKSPACE, 8, KEY_DC}

\* the code points of the characters of the model
CharKeys == {7, 8, 10, 11, 12, 13, 97}

\* the keys getch() may return
Keys == {ESC, NoKey} \cup MovementKeys \cup CharKeys

\* chr(key) for a code point
chr(key) ==
    CASE key = 7 -> BEL
      [] key = 8 -> BS
      [] key = 10 -> NL
      [] key = 11 -> VT
      [] key = 12 -> FF
      [] key = 13 -> CR
      [] key = 97 -> "a"

\* the except clause of _keystroke, around editor.insert(chr(key))
keystroke_catches(kind) == kind = "ValueError"

\* the except clause of _run_editor, around the call of _keystroke
run_editor_catches(kind) == kind = "curses.error"

\* the loop of _run_editor is still turning: the last key was not ESC and
\* the last call raised nothing that reached the top of _run_editor
loop_running ==
    /\ op.name # "quit"
    /\ \/ err.kind = "none"
       \/ keystroke_catches(err.kind)
       \/ run_editor_catches(err.kind)

\* movement_dict[key]()
move(key) ==
    CASE key = KEY_LEFT -> move_left
      [] key = KEY_RIGHT -> move_right
      [] key = KEY_UP -> move_up
      [] key = KEY_DOWN -> move_down
      [] key = KEY_HOME -> move_home
      [] key = KEY_END -> move_end
      [] key \in {KEY_BACKSPACE, 8} -> backspace
      [] key = KEY_DC -> delete

\* one turn of the loop: _keystroke with the key getch() returned
keystroke(key) ==
    /\ loop_running
    /\ IF key = ESC
       THEN Call("quit", [NoArgs EXCEPT !.value = PyInt(key)]) /\ Unchanged /\ err' = NoError
       ELSE IF key \in MovementKeys
       THEN move(key)
       ELSE IF key < 0
       THEN /\ Call("chr", [NoArgs EXCEPT !.value = PyInt(key)])
            /\ Unchanged
            /\ err' = Raised("ValueError", "none")
       ELSE insert(<<chr(key)>>)

NextShell == \E key \in Keys : keystroke(key)

SpecShell == Init /\ [][NextShell]_vars

(***************************************************************************)
(* TextEditorFancy (src/text_editor_fancy.py): the subclass that wraps     *)
(* with textwrap.                                                          *)
(***************************************************************************)
\* TextEditorFancy(line_limit, text): the constructor of TextEditor with
\* the _wrap_lines of the subclass
InitFancy ==
    \E value \in LimitInputs :
        /\ validate_line_limit(value) = "none"
        /\ line_limit = value.val
        /\ text \in InitialTexts
        /\ fancy = TRUE
        /\ undo = NoUndo
        /\ logic_lines = fancy_wrap(text, line_limit)
        /\ display_lines = flatten(logic_lines)
        /\ abs_cursor = 0 + Len(text)
        /\ op = [name |-> "__init__", args |-> [NoArgs EXCEPT !.s = text, !.value = value]]
        /\ err = NoError
        /\ before = [text |-> <<>>, abs_cursor |-> 0, line_limit |-> line_limit,
                     display_lines |-> << <<>> >>, logic_lines |-> <<<< <<>> >>>>]

\* the loops of _absolute_to_wrapped_index over the _display_lines of a
\* TextEditorFancy: each "logic_line" is one of the flat strings and each
\* "display_line" one of its characters, of length 1; the fallback indexes
\* the last character of the last string and raises IndexError when that
\* string is empty
RECURSIVE absolute_walk_flat(_, _, _, _)
absolute_walk_flat(i, j, abs_index, wrapped_line) ==
    IF i > Len(display_lines)
    THEN IF Len(display_lines[Len(display_lines)]) = 0
         THEN <<"IndexError">>
         ELSE <<wrapped_line - 1, 1>>
    ELSE IF j > Len(display_lines[i])
    THEN absolute_walk_flat(i + 1, 1, abs_index - 1, wrapped_line)
    ELSE IF abs_index <= 1
         THEN IF j = Len(display_lines[i])
              THEN <<wrapped_line, abs_index>>
              ELSE <<wrapped_line + (abs_index \div line_limit), abs_index % line_limit>>
         ELSE absolute_walk_flat(i, j + 1, abs_index - 1, wrapped_line + 1)

\* the cursor getter of a TextEditorFancy
fancy_cursor == absolute_walk_flat(1, 1, Max(0, Min(abs_cursor, Len(text))), 0)

\* the operations of a TextEditorFancy that work on the text and the
\* absolute cursor alone
NextFancy ==
    \/ \E s \in InsertInputs : insert(s)
    \/ delete
    \/ backspace
    \/ text_deleter
    \/ \E value \in LimitInputs : line_limit_setter(value)
    \/ move_left
    \/ move_right

SpecFancy == InitFancy /\ [][NextFancy]_vars

(***************************************************************************)
(* A caller that places the cursor once and then keeps making the same     *)
(* vertical move, as a key held down does.                                 *)
(***************************************************************************)
\* the cursor is placed right after construction
place_cursor(pos) ==
    /\ op.name = "__init__"
    /\ set_cursor(pos)

\* move_up, by a caller that has not been moving down
repeat_move_up ==
    /\ op.name # "move_down"
    /\ move_up

\* move_down, by a caller that has not been moving up
repeat_move_down ==
    /\ op.name # "move_up"
    /\ move_down

NextRepeat ==
    \/ \E pos \in CursorInputs : place_cursor(pos)
    \/ repeat_move_up
    \/ repeat_move_down

\* the caller goes on: a move that would change something is made
SpecRepeat ==
    /\ Init
    /\ [][NextRepeat]_vars
    /\ WF_vars(repeat_move_up)
    /\ WF_vars(repeat_move_down)

(***************************************************************************)
(* Vocabulary of the properties.                                           *)
(***************************************************************************)
Offsets == 0..Len(text)

\* number of display lines in the first n logical lines of a partition
RECURSIVE CountIn(_, _)
CountIn(lines, n) ==
    IF n <= 0 THEN 0 ELSE CountIn(lines, n - 1) + Len(lines[n])

\* total length of the first n strings of a sequence of strings
RECURSIVE TotalLen(_, _)
TotalLen(strings, n) ==
    IF n <= 0 THEN 0 ELSE TotalLen(strings, n - 1) + Len(strings[n])

\* the characters of one logical line: its display lines put end to end
RECURSIVE Concat(_, _)
Concat(strings, n) ==
    IF n <= 0 THEN <<>> ELSE Concat(strings, n - 1) \o strings[n]

\* the text a partition stands for: logical lines joined by newlines
RECURSIVE Joined(_, _)
Joined(lines, n) ==
    IF n <= 0 THEN <<>>
    ELSE IF n = 1 THEN Concat(lines[1], Len(lines[1]))
    ELSE Joined(lines, n - 1) \o <<NL>> \o Concat(lines[n], Len(lines[n]))

\* a partition is the greedy wrap of t under limit
IsGreedyWrap(lines, t, limit) ==
    /\ Len(lines) >= 1
    /\ Joined(lines, Len(lines)) = t
    /\ \A i \in 1..Len(lines) :
        /\ Len(lines[i]) >= 1
        /\ \A j \in 1..Len(lines[i]) :
            /\ ~Contains(lines[i][j], NL)
            /\ j < Len(lines[i]) => Len(lines[i][j]) = limit
            /\ j = Len(lines[i]) => Len(lines[i][j]) <= limit
            /\ (j = Len(lines[i]) /\ j > 1) => Len(lines[i][j]) >= 1

\* a flat list is the document-order flattening of a partition
IsFlattening(flat, lines) ==
    /\ Len(flat) = CountIn(lines, Len(lines))
    /\ \A i \in 1..Len(lines) : \A j \in 1..Len(lines[i]) :
        flat[CountIn(lines, i - 1) + j] = lines[i][j]

(***************************************************************************)
(* C1. Round trip: every absolute offset o of the text, converted to a     *)
(* wrapped (line, col) by _absolute_to_wrapped_index and back by           *)
(* _wrapped_to_absolute_index, is o again.                                 *)
(***************************************************************************)
C1_RoundTrip ==
    \A o \in Offsets :
        wrapped_to_absolute_index(absolute_to_wrapped_index(o)[1],
                                  absolute_to_wrapped_index(o)[2]) = o

\* an offset on the newline after an exactly full display line that is not
\* on the first display line, in a document of several logical lines
C1_Witness ==
    /\ Len(display_lines) >= 2
    /\ Len(logic_lines) > Len(display_lines)
    /\ \E o \in Offsets :
        /\ o < Len(text)
        /\ absolute_to_wrapped_index(o)[1] >= 1
        /\ absolute_to_wrapped_index(o)[2] = line_limit
        /\ text[o + 1] = NL

(***************************************************************************)
(* C2. After any sequence of public operations get_sub_lines() is the      *)
(* greedy wrap of the current text under the current line_limit and        *)
(* get_lines() is its flattening in document order.                        *)
(***************************************************************************)
C2_PartitionIsWrapOfText ==
    /\ IsGreedyWrap(display_lines, text, line_limit)
    /\ IsFlattening(logic_lines, display_lines)

\* line_limit has just been assigned a different value and the text has a
\* wrapped logical line followed by another logical line
C2_Witness ==
    /\ op.name = "line_limit ="
    /\ err = NoError
    /\ before.line_limit # line_limit
    /\ before.display_lines # display_lines
    /\ Len(display_lines) >= 2
    /\ Len(display_lines[1]) >= 2

(***************************************************************************)
(* C3. Length invariant: len(text) is the sum of the lengths of all        *)
(* display lines plus the number of logical lines minus one.               *)
(***************************************************************************)
C3_LengthInvariant ==
    Len(text) = TotalLen(logic_lines, Len(logic_lines)) + (Len(display_lines) - 1)

\* a text of several logical lines, one of them wrapped, after an edit
C3_Witness ==
    /\ op.name \in {"insert", "delete", "backspace"}
    /\ before.text # text
    /\ Len(display_lines) >= 2
    /\ Len(logic_lines) > Len(display_lines)

(***************************************************************************)
(* C4. The absolute cursor stays within 0..len(text) after any sequence of *)
(* insert, delete, backspace, del text, line_limit assignment, cursor      *)
(* assignment and moves.                                                   *)
(***************************************************************************)
C4_CursorInRange ==
    /\ abs_cursor >= 0
    /\ abs_cursor <= Len(text)

\* move_right was called with the cursor already at the end of a text
C4_Witness ==
    /\ op.name = "move_right"
    /\ before.abs_cursor = Len(before.text)
    /\ Len(text) >= 1
    /\ abs_cursor = Len(text)

(***************************************************************************)
(* C5. Idempotence: assigning to cursor the value just read from cursor    *)
(* leaves the absolute cursor, the text and the wrap partition unchanged.  *)
(***************************************************************************)
\* the call was cursor = (line, col) with the pair the getter returned
AssignedOwnCursor ==
    /\ op.name = "cursor ="
    /\ <<op.args.line, op.args.col>> = absolute_to_wrapped_index(before.abs_cursor)

C5_ReassignCursorIdempotent ==
    AssignedOwnCursor =>
        /\ err = NoError
        /\ abs_cursor = before.abs_cursor
        /\ text = before.text
        /\ line_limit = before.line_limit
        /\ display_lines = before.display_lines
        /\ logic_lines = before.logic_lines

\* the value read and reassigned is the end of an exactly full display line
\* that is followed by another display line
C5_Witness ==
    /\ AssignedOwnCursor
    /\ op.args.col = line_limit
    /\ op.args.line + 1 < Len(logic_lines)
    /\ abs_cursor = before.abs_cursor

(***************************************************************************)
(* C6. Clamp law: cursor = (line, col) with non-negative integers beyond   *)
(* the document end (line >= number of display lines, or line the last     *)
(* display line and col > its length) never raises and leaves the cursor   *)
(* at the end of the document: absolute cursor len(text), cursor reading   *)
(* (last display line index, its length), (0, 0) on empty text.            *)
(***************************************************************************)
LastLine == Len(logic_lines) - 1
LastLineLen == Len(logic_lines[Len(logic_lines)])

AssignedBeyondEnd ==
    /\ op.name = "cursor ="
    /\ op.args.line >= 0
    /\ op.args.col >= 0
    /\ \/ op.args.line >= Len(logic_lines)
       \/ op.args.line = LastLine /\ op.args.col > LastLineLen

C6_ClampToEnd ==
    AssignedBeyondEnd =>
        /\ err = NoError
        /\ abs_cursor = Len(text)
        /\ cursor = <<LastLine, LastLineLen>>
        /\ text = <<>> => cursor = <<0, 0>>

\* the cursor was elsewhere and was assigned a line past the last display
\* line of a text with several display lines
C6_Witness ==
    /\ AssignedBeyondEnd
    /\ op.args.line > LastLine
    /\ Len(logic_lines) >= 2
    /\ before.abs_cursor < Len(text)
    /\ abs_cursor = Len(text)

\* the same on the last display line with a column past its length
C6_WitnessLastLine ==
    /\ AssignedBeyondEnd
    /\ op.args.line = LastLine
    /\ before.abs_cursor < Len(text)
    /\ abs_cursor = Len(text)

(***************************************************************************)
(* C7. Atomic rejection: insert(s) with s containing BEL, BS, FF, CR or VT *)
(* raises UnsupportedCharacterError and leaves text, absolute cursor,      *)
(* line_limit and the wrap partition as they were, also when s contains    *)
(* allowed characters.                                                     *)
(***************************************************************************)
Disallowed == {"BEL", "BS", "FF", "CR", "VT"}

InsertedDisallowed ==
    /\ op.name = "insert"
    /\ \E i \in 1..Len(op.args.s) : op.args.s[i] \in Disallowed

FieldsAsBefore ==
    /\ text = before.text
    /\ abs_cursor = before.abs_cursor
    /\ line_limit = before.line_limit
    /\ display_lines = before.display_lines
    /\ logic_lines = before.logic_lines

C7_RejectedInsertChangesNothing ==
    InsertedDisallowed =>
        /\ err.kind = "UnsupportedCharacterError"
        /\ FieldsAsBefore

\* the rejected argument starts with an allowed character and the cursor is
\* inside a non-empty text
C7_Witness ==
    /\ InsertedDisallowed
    /\ op.args.s[1] \notin Disallowed
    /\ err.kind = "UnsupportedCharacterError"
    /\ before.abs_cursor > 0
    /\ before.abs_cursor < Len(before.text)

(***************************************************************************)
(* C8. insert(s) with s free of disallowed characters, from text t and     *)
(* absolute cursor c, yields t[:c] + s + t[c:] and cursor c + len(s);      *)
(* insert("") changes neither.                                             *)
(***************************************************************************)
InsertedAllowed ==
    /\ op.name = "insert"
    /\ \A i \in 1..Len(op.args.s) : op.args.s[i] \notin Disallowed

C8_InsertSplices ==
    InsertedAllowed =>
        LET t == before.text
            c == before.abs_cursor
            s == op.args.s
        IN /\ err = NoError
           /\ Len(text) = Len(t) + Len(s)
           /\ \A i \in 1..Len(text) :
                text[i] = IF i <= c THEN t[i]
                          ELSE IF i <= c + Len(s) THEN s[i - c]
                          ELSE t[i - Len(s)]
           /\ abs_cursor = c + Len(s)
           /\ Len(s) = 0 => text = t /\ abs_cursor = c

\* a non-empty string was inserted strictly inside a text
C8_Witness ==
    /\ InsertedAllowed
    /\ Len(op.args.s) >= 1
    /\ before.abs_cursor > 0
    /\ before.abs_cursor < Len(before.text)
    /\ abs_cursor = before.abs_cursor + Len(op.args.s)

\* the empty string was inserted into a non-empty text
C8_WitnessEmpty ==
    /\ InsertedAllowed
    /\ Len(op.args.s) = 0
    /\ Len(text) >= 1

(***************************************************************************)
(* C9. A rejected insert(s) names, among the disallowed characters that    *)
(* occur in s, the one that comes first in the order BEL, BS, FF, CR, VT   *)
(* (the order of UNSUPPORTED_CHARS).                                       *)
(***************************************************************************)
Rank(c) ==
    CASE c = "BEL" -> 1
      [] c = "BS" -> 2
      [] c = "FF" -> 3
      [] c = "CR" -> 4
      [] c = "VT" -> 5
      [] OTHER -> 6

OccursIn(c, s) == \E i \in 1..Len(s) : s[i] = c

C9_NamesFirstInListOrder ==
    InsertedDisallowed =>
        /\ err.kind = "UnsupportedCharacterError"
        /\ err.char \in Disallowed
        /\ OccursIn(err.char, op.args.s)
        /\ \A d \in Disallowed : OccursIn(d, op.args.s) => Rank(err.char) <= Rank(d)

\* the position in s of its first disallowed character
FirstDisallowedAt(s) ==
    CHOOSE i \in 1..Len(s) :
        /\ s[i] \in Disallowed
        /\ \A m \in 1..(i - 1) : s[m] \notin Disallowed

\* C9 as stated: the character named is the disallowed character that
\* occurs first in s, scanning s from left to right
C9_NamesFirstInArgument ==
    InsertedDisallowed =>
        /\ err.kind = "UnsupportedCharacterError"
        /\ err.char = op.args.s[FirstDisallowedAt(op.args.s)]

\* s holds two different disallowed characters and the one named is the
\* second of them in s
C9_Witness ==
    /\ InsertedDisallowed
    /\ Len(op.args.s) = 2
    /\ op.args.s[1] \in Disallowed
    /\ op.args.s[2] \in Disallowed
    /\ op.args.s[1] # op.args.s[2]
    /\ err.char = op.args.s[2]

(***************************************************************************)
(* C10. delete() from text t and absolute cursor c < len(t) yields         *)
(* t[:c] + t[c+1:] with the cursor still c (a newline at c merges the two  *)
(* logical lines); at c = len(t) it changes nothing.                       *)
(***************************************************************************)
Deleted == op.name = "delete"

C10_DeleteRemovesAtCursor ==
    Deleted =>
        LET t == before.text
            c == before.abs_cursor
        IN /\ err = NoError
           /\ abs_cursor = c
           /\ line_limit = before.line_limit
           /\ IF c < Len(t)
              THEN /\ Len(text) = Len(t) - 1
                   /\ \A i \in 1..Len(text) :
                        text[i] = IF i <= c THEN t[i] ELSE t[i + 1]
                   /\ t[c + 1] = NL =>
                        Len(display_lines) = Len(before.display_lines) - 1
              ELSE FieldsAsBefore

\* a newline between two non-empty logical lines was deleted
C10_Witness ==
    /\ Deleted
    /\ before.abs_cursor > 0
    /\ before.abs_cursor + 1 < Len(before.text)
    /\ before.text[before.abs_cursor + 1] = NL
    /\ Len(display_lines) = Len(before.display_lines) - 1
    /\ abs_cursor = before.abs_cursor

\* delete was called at the end of a non-empty text
C10_WitnessAtEnd ==
    /\ Deleted
    /\ Len(before.text) >= 1
    /\ before.abs_cursor = Len(before.text)
    /\ text = before.text

(***************************************************************************)
(* C11. backspace() with absolute cursor c > 0 produces the state of       *)
(* move_left() followed by delete(): text t[:c-1] + t[c:], cursor c - 1,   *)
(* and a newline before the cursor is removed so that the two logical      *)
(* lines merge; with c = 0 it changes neither text nor cursor.             *)
(***************************************************************************)
Backspaced == op.name = "backspace"

C11_BackspaceIsMoveLeftThenDelete ==
    Backspaced =>
        LET t == before.text
            c == before.abs_cursor
        IN /\ err = NoError
           /\ line_limit = before.line_limit
           /\ IF c > 0
              THEN /\ abs_cursor = c - 1
                   /\ Len(text) = Len(t) - 1
                   /\ \A i \in 1..Len(text) :
                        text[i] = IF i <= c - 1 THEN t[i] ELSE t[i + 1]
                   /\ t[c] = NL =>
                        Len(display_lines) = Len(before.display_lines) - 1
              ELSE FieldsAsBefore

\* a newline between two non-empty logical lines was removed by backspace
C11_Witness ==
    /\ Backspaced
    /\ before.abs_cursor >= 2
    /\ before.abs_cursor < Len(before.text)
    /\ before.text[before.abs_cursor] = NL
    /\ Len(display_lines) = Len(before.display_lines) - 1
    /\ abs_cursor = before.abs_cursor - 1

\* backspace was called at offset 0 of a non-empty text
C11_WitnessAtHome ==
    /\ Backspaced
    /\ before.abs_cursor = 0
    /\ Len(before.text) >= 1
    /\ text = before.text

(***************************************************************************)
(* C12. move_left() sets the absolute cursor to max(c - 1, 0) and          *)
(* move_right() to min(c + 1, len(text)): no-ops at offset 0 and at        *)
(* len(text), and a newline or a soft-wrap boundary is crossed as a single *)
(* position.                                                               *)
(***************************************************************************)
C12_HorizontalMoves ==
    LET c == before.abs_cursor
    IN /\ op.name = "move_left" =>
            /\ err = NoError
            /\ c = 0 => abs_cursor = 0
            /\ c > 0 => abs_cursor = c - 1
       /\ op.name = "move_right" =>
            /\ err = NoError
            /\ c = Len(before.text) => abs_cursor = c
            /\ c < Len(before.text) => abs_cursor = c + 1

\* move_left stepped from the start of a logical line over the newline
\* onto the end of a wrapped logical line
C12_Witness ==
    /\ op.name = "move_left"
    /\ before.abs_cursor >= 1
    /\ text[before.abs_cursor] = NL
    /\ abs_cursor = before.abs_cursor - 1
    /\ Len(display_lines[1]) >= 2

\* move_right stepped over a soft-wrap boundary inside a logical line
C12_WitnessWrap ==
    /\ op.name = "move_right"
    /\ abs_cursor = before.abs_cursor + 1
    /\ absolute_to_wrapped_index(before.abs_cursor)[1] + 1 = cursor[1]
    /\ Len(display_lines) = 1

\* move_left at offset 0 and move_right at the end of a non-empty text
C12_WitnessAtEdge ==
    /\ Len(text) >= 1
    /\ \/ op.name = "move_left" /\ before.abs_cursor = 0 /\ abs_cursor = 0
       \/ op.name = "move_right" /\ before.abs_cursor = Len(text) /\ abs_cursor = Len(text)

(***************************************************************************)
(* C13. move_home() sets the absolute cursor to 0, cursor and line_cursor  *)
(* reading (0, 0); move_end() sets it to len(text), cursor reading (last   *)
(* display line index, its length).                                        *)
(***************************************************************************)
C13_HomeAndEnd ==
    /\ op.name = "move_home" =>
            /\ err = NoError
            /\ abs_cursor = 0
            /\ cursor = <<0, 0>>
            /\ line_cursor = <<0, 0>>
    /\ op.name = "move_end" =>
            /\ err = NoError
            /\ abs_cursor = Len(text)
            /\ cursor = <<Len(logic_lines) - 1, Len(logic_lines[Len(logic_lines)])>>

\* move_end from inside a text whose last logical line is wrapped and not
\* the first one
C13_Witness ==
    /\ op.name = "move_end"
    /\ before.abs_cursor < Len(text)
    /\ abs_cursor = Len(text)
    /\ Len(display_lines) >= 2
    /\ Len(display_lines[Len(display_lines)]) >= 2

\* move_home from a later display line
C13_WitnessHome ==
    /\ op.name = "move_home"
    /\ absolute_to_wrapped_index(before.abs_cursor)[1] >= 1
    /\ abs_cursor = 0

(***************************************************************************)
(* C14. None of move_left, move_right, move_up, move_down, move_home and   *)
(* move_end changes text, line_limit or the wrap partition.                *)
(***************************************************************************)
Moves == {"move_left", "move_right", "move_up", "move_down", "move_home", "move_end"}

C14_MovesKeepTextAndPartition ==
    op.name \in Moves =>
        /\ text = before.text
        /\ line_limit = before.line_limit
        /\ display_lines = before.display_lines
        /\ logic_lines = before.logic_lines

\* a move that did move the cursor, in a text of several display lines
C14_Witness ==
    /\ op.name \in Moves
    /\ abs_cursor # before.abs_cursor
    /\ Len(logic_lines) >= 2
    /\ text = before.text

(***************************************************************************)
(* C15. Assigning line_limit a positive integer different from the current *)
(* one re-wraps the display lines under the new limit while text and the   *)
(* absolute cursor stay unchanged; assigning the current value changes     *)
(* nothing at all.                                                         *)
(***************************************************************************)
AssignedLimit == op.name = "line_limit ="

IsPositiveInt(v) == v.type = "int" /\ v.val > 0

C15_LimitAssignmentRewraps ==
    (AssignedLimit /\ IsPositiveInt(op.args.value)) =>
        /\ err = NoError
        /\ line_limit = op.args.value.val
        /\ text = before.text
        /\ abs_cursor = before.abs_cursor
        /\ IsGreedyWrap(display_lines, before.text, op.args.value.val)
        /\ IsFlattening(logic_lines, display_lines)
        /\ op.args.value.val = before.line_limit => FieldsAsBefore

\* a smaller limit was assigned with the cursor inside the text, and the
\* partition has more display lines than before
C15_Witness ==
    /\ AssignedLimit
    /\ IsPositiveInt(op.args.value)
    /\ op.args.value.val < before.line_limit
    /\ Len(logic_lines) > Len(before.logic_lines)
    /\ before.abs_cursor > 0
    /\ before.abs_cursor < Len(text)
    /\ abs_cursor = before.abs_cursor

\* the current limit was assigned again
C15_WitnessSame ==
    /\ AssignedLimit
    /\ IsPositiveInt(op.args.value)
    /\ op.args.value.val = before.line_limit
    /\ Len(text) >= 1

(***************************************************************************)
(* C16. line_limit is a positive integer in every reachable state: the     *)
(* constructor and the setter raise ValueError for a value <= 0 and        *)
(* TypeError for a non-integer or boolean value, and a rejected assignment *)
(* leaves line_limit, text, cursor and wrap partition unchanged.           *)
(***************************************************************************)
C16_LimitAlwaysPositive ==
    /\ line_limit \in Nat
    /\ line_limit > 0
    /\ op.name = "__init__" => IsPositiveInt(op.args.value)
    /\ (AssignedLimit /\ op.args.value.type # "int") =>
            /\ err.kind = "TypeError"
            /\ FieldsAsBefore
    /\ (AssignedLimit /\ op.args.value.type = "int" /\ op.args.value.val <= 0) =>
            /\ err.kind = "ValueError"
            /\ FieldsAsBefore

\* 0 was assigned to the limit of an editor holding a wrapped text
C16_Witness ==
    /\ AssignedLimit
    /\ op.args.value = PyInt(0)
    /\ err.kind = "ValueError"
    /\ Len(logic_lines) > Len(display_lines)
    /\ line_limit = before.line_limit

\* True was assigned to the limit
C16_WitnessBool ==
    /\ AssignedLimit
    /\ op.args.value.type = "bool"
    /\ err.kind = "TypeError"
    /\ line_limit = before.line_limit
    /\ line_limit > 1

(***************************************************************************)
(* C17. Assigning cursor a malformed value (not a tuple or list, a length  *)
(* other than 2, a non-integer or boolean component, a negative component) *)
(* raises TypeError or ValueError and leaves the absolute cursor, text,    *)
(* line_limit and wrap partition unchanged; out-of-range pairs of          *)
(* non-negative integers are never rejected.                               *)
(***************************************************************************)
AssignedCursor == op.name = "cursor ="

IsSequence(v) == v.type = "tuple" \/ v.type = "list"

MalformedCursor(v) ==
    \/ ~IsSequence(v)
    \/ Len(v.items) # 2
    \/ \E i \in 1..Len(v.items) : v.items[i].type # "int"
    \/ \E i \in 1..Len(v.items) : v.items[i].val < 0

C17_MalformedCursorRejected ==
    /\ (AssignedCursor /\ MalformedCursor(op.args.pos)) =>
            /\ err.kind \in {"TypeError", "ValueError"}
            /\ FieldsAsBefore
    /\ (AssignedCursor /\ ~MalformedCursor(op.args.pos)) =>
            err = NoError

\* a pair with a boolean component was assigned while the cursor was inside
\* a non-empty text
C17_Witness ==
    /\ AssignedCursor
    /\ IsSequence(op.args.pos)
    /\ Len(op.args.pos.items) = 2
    /\ \E i \in 1..2 : op.args.pos.items[i].type = "bool"
    /\ err.kind = "TypeError"
    /\ before.abs_cursor > 0
    /\ before.abs_cursor < Len(before.text)

\* a pair of non-negative integers far past the document end was accepted
C17_WitnessOutOfRange ==
    /\ AssignedCursor
    /\ ~MalformedCursor(op.args.pos)
    /\ op.args.line > Len(logic_lines)
    /\ op.args.col > line_limit
    /\ err = NoError

(***************************************************************************)
(* C18. del editor.text yields text "", absolute cursor 0, get_lines()     *)
(* [""], get_sub_lines() [[""]] and an unchanged line_limit; applying it   *)
(* again leaves that state unchanged.                                      *)
(***************************************************************************)
Cleared == op.name = "del text"

C18_ClearResets ==
    Cleared =>
        /\ err = NoError
        /\ text = <<>>
        /\ abs_cursor = 0
        /\ logic_lines = << <<>> >>
        /\ display_lines = << << <<>> >> >>
        /\ line_limit = before.line_limit
        /\ (before.text = <<>> /\ before.abs_cursor = 0) => FieldsAsBefore

\* a text of several display lines was cleared with the cursor inside it
C18_Witness ==
    /\ Cleared
    /\ Len(before.logic_lines) >= 2
    /\ before.abs_cursor > 0
    /\ text = <<>>

\* an already cleared editor was cleared again
C18_WitnessAgain ==
    /\ Cleared
    /\ before.text = <<>>
    /\ before.abs_cursor = 0
    /\ text = <<>>

(***************************************************************************)
(* C19. Right after construction with a valid initial text the absolute    *)
(* cursor is len(text): cursor reads (last display line index, its length) *)
(* and line_cursor reads (last logical line index, its length).            *)
(***************************************************************************)
Constructed == op.name = "__init__"

C19_ConstructedCursorAtEnd ==
    Constructed =>
        /\ text = op.args.s
        /\ abs_cursor = Len(text)
        /\ cursor = <<Len(logic_lines) - 1, Len(logic_lines[Len(logic_lines)])>>
        /\ line_cursor =
              <<Len(display_lines) - 1,
                TotalLen(display_lines[Len(display_lines)],
                         Len(display_lines[Len(display_lines)]))>>

\* constructed with a text whose last logical line is wrapped and follows
\* another logical line
C19_Witness ==
    /\ Constructed
    /\ Len(display_lines) >= 2
    /\ Len(display_lines[Len(display_lines)]) >= 2
    /\ abs_cursor = Len(text)

(***************************************************************************)
(* C20. Shape of the wrap partition: the number of logical lines is the    *)
(* number of newlines in text plus one; every logical line has at least    *)
(* one display line; every display line is at most line_limit long; every  *)
(* display line that is not the last of its logical line is exactly        *)
(* line_limit long; the last display line of a logical line is empty only  *)
(* when the logical line is empty.                                         *)
(***************************************************************************)
NewlineCount == Cardinality({i \in 1..Len(text) : text[i] = NL})

C20_PartitionShape ==
    /\ Len(display_lines) = NewlineCount + 1
    /\ \A i \in 1..Len(display_lines) :
        LET n == Len(display_lines[i])
        IN /\ n >= 1
           /\ \A j \in 1..n : Len(display_lines[i][j]) <= line_limit
           /\ \A j \in 1..(n - 1) : Len(display_lines[i][j]) = line_limit
           /\ Len(display_lines[i][n]) = 0 => TotalLen(display_lines[i], n) = 0

\* a logical line whose length is twice line_limit, next to an empty one
C20_Witness ==
    /\ \E i \in 1..Len(display_lines) :
        /\ Len(display_lines[i]) = 2
        /\ Len(display_lines[i][2]) = line_limit
    /\ \E i \in 1..Len(display_lines) : display_lines[i] = << <<>> >>

(***************************************************************************)
(* Display lines by their index in the flattened, document-order sequence  *)
(* (0-based, as the cursor counts them).                                   *)
(***************************************************************************)
\* the (1-based) logical line that display line d belongs to
LogicalOf(d) ==
    CHOOSE i \in 1..Len(display_lines) :
        CountIn(display_lines, i - 1) <= d /\ d < CountIn(display_lines, i)

\* the absolute offset at which display line d starts: the characters of
\* the display lines before it and one newline per logical line before it
LineOffset(d) == TotalLen(logic_lines, d) + (LogicalOf(d) - 1)

\* the length of display line d
LineLen(d) == Len(logic_lines[d + 1])

\* display line d is the last one of its logical line
EndsLogicalLine(d) == d + 1 = CountIn(display_lines, LogicalOf(d))

\* the wrapped cursor at the time of the last call, for calls that leave
\* the text and the partition alone
CursorBefore == absolute_to_wrapped_index(before.abs_cursor)

\* the call was cursor = (line, col) with two non-negative integers
AssignedPair ==
    /\ op.name = "cursor ="
    /\ op.args.line >= 0
    /\ op.args.col >= 0

(***************************************************************************)
(* C21. In every reachable state the cursor getter returns a pair (d, c)   *)
(* with 0 <= d < number of display lines and 0 <= c <= length of display   *)
(* line d, so c = 0 on an empty display line; the position is always       *)
(* inside the flattened display-line sequence.                             *)
(***************************************************************************)
C21_CursorReadsValidPosition ==
    /\ cursor[1] >= 0
    /\ cursor[1] < Len(logic_lines)
    /\ cursor[2] >= 0
    /\ cursor[2] <= LineLen(cursor[1])

\* a vertical move has brought the cursor onto an empty display line that
\* is not the first one
C21_Witness ==
    /\ op.name \in {"move_up", "move_down"}
    /\ before.abs_cursor # abs_cursor
    /\ cursor[1] >= 1
    /\ cursor[1] < Len(logic_lines)
    /\ LineLen(cursor[1]) = 0
    /\ cursor[2] = 0

\* the cursor sits at the end of an exactly full last display line
C21_WitnessFullLine ==
    /\ cursor = <<LastLine, line_limit>>
    /\ Len(logic_lines) >= 2

(***************************************************************************)
(* C22. In every reachable state line_cursor returns a pair (i, k): i is   *)
(* the number of newlines in text[:abs_cursor] and k is abs_cursor minus   *)
(* the offset at which logical line i starts; k may exceed line_limit.     *)
(***************************************************************************)
NewlinesBefore(o) == Cardinality({i \in 1..o : text[i] = NL})

\* the offset just after the last newline of text[:o], 0 when there is none
LogicalLineStart(o) ==
    LET starts == {s \in 0..o : s = 0 \/ text[s] = NL}
    IN CHOOSE s \in starts : \A x \in starts : x <= s

C22_LineCursorCountsNewlines ==
    /\ line_cursor # NoneValue
    /\ line_cursor = <<NewlinesBefore(abs_cursor),
                       abs_cursor - LogicalLineStart(abs_cursor)>>

\* the cursor is further than line_limit into a logical line that is not
\* the first one
C22_Witness ==
    /\ line_cursor # NoneValue
    /\ line_cursor[1] >= 1
    /\ line_cursor[2] > line_limit
    /\ line_cursor[2] = abs_cursor - LogicalLineStart(abs_cursor)

(***************************************************************************)
(* C23. cursor = (line, col) with col > line_limit gives the same absolute *)
(* cursor as cursor = (line + 1, min(col - line_limit, line_limit)): the   *)
(* overflow is one step to the next display line, taking line_limit off    *)
(* the column, whatever the size of col.                                   *)
(***************************************************************************)
C23_OverflowIsOneLineStep ==
    (AssignedPair /\ op.args.col > line_limit) =>
        /\ err = NoError
        /\ abs_cursor = cursor_setter(op.args.line + 1,
                                      Min(op.args.col - line_limit, line_limit))

\* C23 as first stated: the overflow is folded into line increments with a
\* wrap width of line_limit + 1, that is the absolute cursor is the one of
\* cursor = (line + col div (line_limit + 1), col mod (line_limit + 1))
C23_OverflowFoldsByWrapWidth ==
    (AssignedPair /\ op.args.col > line_limit) =>
        /\ err = NoError
        /\ abs_cursor = cursor_setter(op.args.line + (op.args.col \div (line_limit + 1)),
                                      op.args.col % (line_limit + 1))

\* a column more than twice line_limit was assigned on a display line that
\* has two more below it, and the cursor came to the end of the next one
C23_Witness ==
    /\ AssignedPair
    /\ op.args.col > 2 * line_limit
    /\ op.args.line + 2 < Len(logic_lines)
    /\ before.abs_cursor # abs_cursor
    /\ abs_cursor = LineOffset(op.args.line + 1) + LineLen(op.args.line + 1)

(***************************************************************************)
(* C24. cursor = (line, col) with col > line_limit, display line line+1    *)
(* existing and col - line_limit >= its length puts the cursor at the end  *)
(* of display line line+1; when that display line ends its logical line    *)
(* the cursor reads (line+1, its length).                                  *)
(***************************************************************************)
C24_OverflowLandsOnNextLineEnd ==
    ( /\ AssignedPair
      /\ op.args.col > line_limit
      /\ op.args.line + 1 < Len(logic_lines)
      /\ op.args.col - line_limit >= LineLen(op.args.line + 1) ) =>
        /\ err = NoError
        /\ abs_cursor = LineOffset(op.args.line + 1) + LineLen(op.args.line + 1)
        /\ EndsLogicalLine(op.args.line + 1) =>
                cursor = <<op.args.line + 1, LineLen(op.args.line + 1)>>

\* C24 as first stated, for every col with col - line_limit >= length of
\* display line line+1, which includes col = line_limit before an empty
\* display line
C24_AnyColumnLandsOnNextLineEnd ==
    ( /\ AssignedPair
      /\ op.args.line + 1 < Len(logic_lines)
      /\ op.args.col - line_limit >= LineLen(op.args.line + 1) ) =>
        /\ err = NoError
        /\ abs_cursor = LineOffset(op.args.line + 1) + LineLen(op.args.line + 1)
        /\ EndsLogicalLine(op.args.line + 1) =>
                cursor = <<op.args.line + 1, LineLen(op.args.line + 1)>>

\* the overflowing column was assigned on the first of three display lines,
\* the second ending its logical line, with the cursor elsewhere before
C24_Witness ==
    /\ AssignedPair
    /\ op.args.line = 0
    /\ op.args.col > line_limit
    /\ Len(logic_lines) >= 3
    /\ op.args.col - line_limit >= LineLen(1)
    /\ LineLen(1) >= 1
    /\ EndsLogicalLine(1)
    /\ before.abs_cursor # abs_cursor
    /\ cursor = <<1, LineLen(1)>>

\* the same onto a display line that is continued by another one
C24_WitnessContinued ==
    /\ AssignedPair
    /\ op.args.col > line_limit
    /\ op.args.line + 1 < Len(logic_lines)
    /\ ~EndsLogicalLine(op.args.line + 1)
    /\ abs_cursor = LineOffset(op.args.line + 1) + line_limit

(***************************************************************************)
(* C25. When the editor rejects the character of a keystroke by raising,   *)
(* _keystroke catches the error and discards the keystroke: the loop of    *)
(* _run_editor keeps turning and the editor's fields are as before.        *)
(***************************************************************************)
KeystrokeRejected == op.name = "insert" /\ err # NoError

C25_RejectedKeystrokeIsDiscarded ==
    KeystrokeRejected =>
        /\ loop_running
        /\ FieldsAsBefore

(***************************************************************************)
(* C26. TextEditorFancy keeps the line structure of TextEditor: in every   *)
(* reachable state get_sub_lines() has one group of display lines per      *)
(* newline-delimited logical line, get_lines() has one entry per display   *)
(* line of those groups, and the cursor getter returns, without raising, a *)
(* (display line index, column) inside that flattening.                    *)
(***************************************************************************)
\* the number of display lines the text has under the fancy wrap
FancyLineCount == CountIn(fancy_wrap(text, line_limit), NewlineCount + 1)

\* get_sub_lines() and get_lines() of the editor
get_sub_lines == display_lines
get_lines == logic_lines

C26_FancyKeepsLineStructure ==
    /\ Len(get_sub_lines) = NewlineCount + 1
    /\ Len(get_lines) = FancyLineCount
    /\ Len(fancy_cursor) = 2
    /\ fancy_cursor[1] >= 0
    /\ fancy_cursor[1] < FancyLineCount
    /\ fancy_cursor[2] >= 0
    /\ fancy_cursor[2] <= Len(flatten(fancy_wrap(text, line_limit))[fancy_cursor[1] + 1])

(***************************************************************************)
(* C27. move_up() from a cursor reading (l, c) with c = line_limit, the    *)
(* end of an exactly full display line, leaves the cursor reading (l, 0):  *)
(* the start of the same display line, not display line l-1.               *)
(***************************************************************************)
C27_MoveUpFromFullLineEnd ==
    (op.name = "move_up" /\ CursorBefore[2] = line_limit) =>
        /\ err = NoError
        /\ cursor = <<CursorBefore[1], 0>>

\* move_up from the end of a full display line that has one above it
C27_Witness ==
    /\ op.name = "move_up"
    /\ CursorBefore[2] = line_limit
    /\ CursorBefore[1] >= 1
    /\ LineLen(CursorBefore[1] - 1) >= 1
    /\ cursor = <<CursorBefore[1], 0>>

(***************************************************************************)
(* C28. move_up() from a cursor reading (l, c) with l >= 1 and             *)
(* c < line_limit leaves it reading (l-1, min(c, length of display line    *)
(* l-1)): the column is the one of the cursor at the call, nothing else    *)
(* is remembered.                                                          *)
(***************************************************************************)
C28_MoveUpKeepsColumn ==
    (op.name = "move_up" /\ CursorBefore[1] >= 1 /\ CursorBefore[2] < line_limit) =>
        /\ err = NoError
        /\ cursor = <<CursorBefore[1] - 1,
                      Min(CursorBefore[2], LineLen(CursorBefore[1] - 1))>>

\* move_up with a column that the display line above also has
C28_Witness ==
    /\ op.name = "move_up"
    /\ CursorBefore[1] >= 1
    /\ CursorBefore[2] >= 1
    /\ CursorBefore[2] < line_limit
    /\ cursor = <<CursorBefore[1] - 1, CursorBefore[2]>>

\* move_up with a column that the shorter display line above does not have
C28_WitnessClamped ==
    /\ op.name = "move_up"
    /\ CursorBefore[1] >= 1
    /\ CursorBefore[2] < line_limit
    /\ CursorBefore[2] > LineLen(CursorBefore[1] - 1)
    /\ cursor = <<CursorBefore[1] - 1, LineLen(CursorBefore[1] - 1)>>

(***************************************************************************)
(* C29. move_down() from a cursor reading (l, c) with display line l+1     *)
(* existing leaves it reading (l+1, min(c', length of display line l+1)),  *)
(* c' being 0 when c = line_limit and c otherwise: from the end of an      *)
(* exactly full line it lands on column 0 of the next display line.        *)
(***************************************************************************)
C29_MoveDownKeepsColumn ==
    (op.name = "move_down" /\ CursorBefore[1] + 1 < Len(logic_lines)) =>
        LET c == IF CursorBefore[2] = line_limit THEN 0 ELSE CursorBefore[2]
        IN /\ err = NoError
           /\ cursor = <<CursorBefore[1] + 1, Min(c, LineLen(CursorBefore[1] + 1))>>

\* move_down from the end of an exactly full display line onto a display
\* line that is not empty
C29_Witness ==
    /\ op.name = "move_down"
    /\ CursorBefore[1] + 1 < Len(logic_lines)
    /\ CursorBefore[2] = line_limit
    /\ LineLen(CursorBefore[1] + 1) >= 1
    /\ cursor = <<CursorBefore[1] + 1, 0>>

\* move_down keeping a column between 1 and line_limit - 1
C29_WitnessColumn ==
    /\ op.name = "move_down"
    /\ CursorBefore[1] + 1 < Len(logic_lines)
    /\ CursorBefore[2] >= 1
    /\ CursorBefore[2] < line_limit
    /\ cursor = <<CursorBefore[1] + 1, CursorBefore[2]>>

(***************************************************************************)
(* C30. At the document edges the vertical moves clamp and are idempotent: *)
(* move_up() with the cursor on display line 0 sets the absolute cursor to *)
(* 0, move_down() with the cursor on the last display line sets it to      *)
(* len(text), and the same move made again stores the same cursor.         *)
(***************************************************************************)
C30_VerticalMovesClampAtEdges ==
    /\ (op.name = "move_up" /\ CursorBefore[1] = 0) =>
            /\ err = NoError
            /\ abs_cursor = 0
            /\ cursor_setter(move_up_target[1], move_up_target[2]) = abs_cursor
    /\ (op.name = "move_down" /\ CursorBefore[1] = LastLine) =>
            /\ err = NoError
            /\ abs_cursor = Len(text)
            /\ cursor_setter(move_down_target[1], move_down_target[2]) = abs_cursor

\* move_up from inside the first of several display lines
C30_Witness ==
    /\ op.name = "move_up"
    /\ CursorBefore[1] = 0
    /\ before.abs_cursor >= 1
    /\ Len(logic_lines) >= 2
    /\ abs_cursor = 0

\* move_down from inside the last of several display lines
C30_WitnessDown ==
    /\ op.name = "move_down"
    /\ CursorBefore[1] = LastLine
    /\ before.abs_cursor < Len(text)
    /\ Len(logic_lines) >= 2
    /\ abs_cursor = Len(text)

(***************************************************************************)
(* C31. In every reachable state the cursor getter reports a column equal  *)
(* to the length of its display line only on the last display line of a    *)
(* logical line; an offset on a soft-wrap boundary inside a logical line   *)
(* reads as column 0 of the following display line, never (d, line_limit). *)
(***************************************************************************)
\* display line d is followed by another one of the same logical line
IsContinued(d) == d + 1 < Len(logic_lines) /\ ~EndsLogicalLine(d)

C31_WrapBoundaryReadsAsNextLine ==
    /\ \A o \in Offsets :
        LET pos == absolute_to_wrapped_index(o)
        IN pos[2] = LineLen(pos[1]) => EndsLogicalLine(pos[1])
    /\ \A d \in 0..(Len(logic_lines) - 1) :
        IsContinued(d) =>
            absolute_to_wrapped_index(LineOffset(d) + LineLen(d)) = <<d + 1, 0>>

\* move_right has brought the cursor onto the boundary after the second
\* display line of a logical line with three
C31_Witness ==
    /\ op.name = "move_right"
    /\ before.abs_cursor < abs_cursor
    /\ IsContinued(1)
    /\ LogicalOf(1) = LogicalOf(0)
    /\ abs_cursor = LineOffset(1) + LineLen(1)
    /\ cursor = <<2, 0>>

(***************************************************************************)
(* C32. cursor = (d, c) with d a display line index and c at most the      *)
(* length of display line d sets the absolute cursor to the lengths of     *)
(* display lines 0..d-1, plus one per logical line ended before display    *)
(* line d, plus c: one character per newline, none per soft wrap.          *)
(***************************************************************************)
AssignedInsideLine ==
    /\ AssignedPair
    /\ op.args.line < Len(logic_lines)
    /\ op.args.col <= LineLen(op.args.line)

C32_SetterCountsOnePerNewline ==
    AssignedInsideLine =>
        /\ err = NoError
        /\ abs_cursor = TotalLen(logic_lines, op.args.line)
                        + (LogicalOf(op.args.line) - 1) + op.args.col

\* the position assigned lies after a soft wrap and after a newline
C32_Witness ==
    /\ AssignedInsideLine
    /\ op.args.line = 2
    /\ LogicalOf(0) = LogicalOf(1)
    /\ LogicalOf(2) = 2
    /\ op.args.col = LineLen(2)
    /\ before.abs_cursor # abs_cursor
    /\ abs_cursor = LineLen(0) + LineLen(1) + 1 + op.args.col

\* the position assigned is the end of a display line that is continued
C32_WitnessBoundary ==
    /\ AssignedInsideLine
    /\ IsContinued(op.args.line)
    /\ op.args.col = line_limit
    /\ abs_cursor = LineOffset(op.args.line + 1)

(***************************************************************************)
(* C33. For every offset in 0..len(text) the conversion the cursor getter  *)
(* uses, _absolute_to_wrapped_index with its divmod by line_limit, returns *)
(* the same (line, col) as the walk of _absolute_to_wrapped_index_new.     *)
(***************************************************************************)
C33_ConversionsAgree ==
    \A o \in Offsets :
        absolute_to_wrapped_index(o) = absolute_to_wrapped_index_new(o)

\* the cursor is on a soft-wrap boundary, where the one conversion takes
\* the divmod and the other continues to the next sub-line, and the text
\* has a second logical line
C33_Witness ==
    /\ \E d \in 0..(Len(logic_lines) - 1) :
        /\ IsContinued(d)
        /\ abs_cursor = LineOffset(d) + line_limit
        /\ absolute_to_wrapped_index_new(abs_cursor) = <<d + 1, 0>>
    /\ Len(display_lines) >= 2

(***************************************************************************)
(* C34. In every reachable state, the one right after construction with an *)
(* initial text included, text contains none of BEL, BS, FF, CR, VT.       *)
(***************************************************************************)
C34_NoDisallowedCharInText ==
    \A i \in 1..Len(text) : text[i] \notin Disallowed

\* an insert of a string with a disallowed character after an allowed one
\* was attempted on a text that is not empty
C34_Witness ==
    /\ op.name = "insert"
    /\ Len(op.args.s) = 2
    /\ op.args.s[1] \notin Disallowed
    /\ op.args.s[2] \in Disallowed
    /\ Len(text) >= 1
    /\ text = before.text

(***************************************************************************)
(* C35. Vertical moves make progress: move_up() strictly decreases the     *)
(* absolute cursor unless it is already 0 and move_down() strictly         *)
(* increases it unless it is already len(text); so a caller repeating      *)
(* move_up reaches offset 0 and one repeating move_down reaches len(text), *)
(* and the cursor stays there.                                             *)
(***************************************************************************)
MoveUpProgressed ==
    \/ abs_cursor < before.abs_cursor
    \/ before.abs_cursor = 0 /\ abs_cursor = 0

MoveDownProgressed ==
    \/ abs_cursor > before.abs_cursor
    \/ before.abs_cursor = Len(text) /\ abs_cursor = Len(text)

C35_VerticalMovesMakeProgress ==
    /\ [](op.name = "move_up" => MoveUpProgressed)
    /\ [](op.name = "move_down" => MoveDownProgressed)
    /\ (op.name = "move_up") ~> [](abs_cursor = 0)
    /\ (op.name = "move_down") ~> [](abs_cursor = Len(text))

\* move_up has been repeated to the start of a text of three display lines
\* or more, and the last call changed nothing
C35_Witness ==
    /\ op.name = "move_up"
    /\ Len(logic_lines) >= 3
    /\ before.abs_cursor = 0
    /\ abs_cursor = 0

\* move_down has moved the cursor without reaching the end of the text
C35_WitnessDown ==
    /\ op.name = "move_down"
    /\ before.abs_cursor < abs_cursor
    /\ abs_cursor < Len(text)

(***************************************************************************)
(* C36. insert(s) with a valid non-empty s followed by len(s) calls of     *)
(* backspace() restores the text, the absolute cursor and the wrap         *)
(* partition that held before the insert.                                  *)
(***************************************************************************)
\* the last of the len(s) backspaces after an insert(s) has been made
InsertTakenBack == op.name = "backspace" /\ undo.left = 0

C36_BackspacesUndoInsert ==
    InsertTakenBack =>
        /\ text = undo.fields.text
        /\ abs_cursor = undo.fields.abs_cursor
        /\ display_lines = undo.fields.display_lines
        /\ logic_lines = undo.fields.logic_lines

\* two characters, one of them a newline, were inserted in front of a
\* character of the text and taken back by two backspaces
C36_Witness ==
    /\ InsertTakenBack
    /\ Len(undo.s) = 2
    /\ Contains(undo.s, NL)
    /\ undo.fields.abs_cursor < Len(undo.fields.text)
    /\ text = undo.fields.text

\* the same with one character inserted at the end of a wrapped text
C36_WitnessAtEnd ==
    /\ InsertTakenBack
    /\ Len(undo.s) = 1
    /\ undo.fields.abs_cursor = Len(undo.fields.text)
    /\ Len(undo.fields.text) > line_limit
    /\ abs_cursor = Len(text)

====
